---- MODULE Spec2Model ----
(***************************************************************************)
(* AcneSense (jerawat.py): detection and its result display, the          *)
(* recommendation lookup, and the skin progress journal, as state          *)
(* machines.                                                               *)
(*                                                                         *)
(* Text the program computes on character by character (lower-casing, the  *)
(* trailing "s" of the CSV load) is a sequence of one-character strings.   *)
(* Text the program only compares or looks up (the selectbox options, the  *)
(* notes, the file extensions) is a plain string.                          *)
(***************************************************************************)
EXTENDS Integers, Sequences, FiniteSets, TLC

(***************************************************************************)
(* Bounds of the model.                                                    *)
(***************************************************************************)
\* longest pengobatan.csv the recommendation specification loads
MaxRows == 3

(***************************************************************************)
(* Text values.                                                            *)
(***************************************************************************)
s_semua == <<"s", "e", "m", "u", "a">>
s_oily == <<"o", "i", "l", "y">>
s_Oily == <<"O", "i", "l", "y">>
s_kering == <<"k", "e", "r", "i", "n", "g">>
s_normal == <<"n", "o", "r", "m", "a", "l">>
s_kombinasi == <<"k", "o", "m", "b", "i", "n", "a", "s", "i">>
s_sensitive == <<"s", "e", "n", "s", "i", "t", "i", "v", "e">>
s_blackhead == <<"b", "l", "a", "c", "k", "h", "e", "a", "d">>
s_blackheads == s_blackhead \o <<"s">>
s_whitehead == <<"w", "h", "i", "t", "e", "h", "e", "a", "d">>
s_whiteheads == s_whitehead \o <<"s">>
s_papule == <<"p", "a", "p", "u", "l", "e">>
s_papules == s_papule \o <<"s">>
s_Papules == <<"P">> \o Tail(s_papules)
s_pustule == <<"p", "u", "s", "t", "u", "l", "e">>
s_pustules == s_pustule \o <<"s">>
s_cystic == <<"c", "y", "s", "t", "i", "c">>
s_lv0 == <<"l", "v", "0">>
s_nodule == <<"n", "o", "d", "u", "l", "e">>
s_nodules == s_nodule \o <<"s">>
s_Cystic == <<"C">> \o Tail(s_cystic)

\* str.lower() on one character, for the capitals the model's texts use
lower_char(c) ==
    CASE c = "B" -> "b"
      [] c = "C" -> "c"
      [] c = "K" -> "k"
      [] c = "L" -> "l"
      [] c = "O" -> "o"
      [] c = "P" -> "p"
      [] c = "S" -> "s"
      [] c = "W" -> "w"
      [] OTHER -> c

\* str.lower()
str_lower(s) == [i \in 1..Len(s) |-> lower_char(s[i])]

\* str.replace('s$', '', regex=True): one "s" at the end of the text is dropped
str_replace_trailing_s(s) ==
    IF Len(s) > 0 /\ s[Len(s)] = "s" THEN SubSeq(s, 1, Len(s) - 1) ELSE s

(***************************************************************************)
(* The recommendation table.                                               *)
(***************************************************************************)
\* values of the 'tingkat' column as written in pengobatan.csv
RawTingkat == {s_Papules, s_cystic}

\* values of the 'jenis kulit' column as written in pengobatan.csv
RawJenisKulit == {s_semua, s_Oily, s_kering}

\* the files pengobatan.csv can be: up to MaxRows rows of the two key columns
CsvFiles ==
    UNION {[1..n -> [tingkat : RawTingkat, jenis_kulit : RawJenisKulit]] : n \in 0..MaxRows}

\* load_recommendation_data: the frame read from the CSV, 'tingkat' lower-cased
\* with a trailing "s" dropped and 'jenis kulit' lower-cased.  The 'kandungan'
\* cell of row i is the text of CSV line i, written i.
load_recommendation_data(csv) ==
    [i \in 1..Len(csv) |->
        [tingkat |-> str_replace_trailing_s(str_lower(csv[i].tingkat)),
         jenis_kulit |-> str_lower(csv[i].jenis_kulit),
         kandungan |-> i]]

\* labels.txt, one class name per line
class_names == <<s_blackheads, s_whiteheads, s_papules, s_pustules, s_cystic, s_lv0>>

\* the options of the skin type selectbox
SkinTypeOptions ==
    {"Tidak Tahu / Lewati", "Normal", "Berminyak", "Kering", "Kombinasi", "Sensitive"}

\* a mutated mapping: the dry selection has a key of its own
skin_type_map_dry_key(skin_type) ==
    CASE skin_type = "Berminyak" -> s_oily
      [] skin_type = "Kering" -> s_kering
      [] OTHER -> s_semua

\* a mutated mapping: a selection the dict does not hold is looked up as oily
skin_type_map_default_oily(skin_type) ==
    CASE skin_type \in {"Normal", "Kering", "Kombinasi", "Sensitive", "Tidak Tahu / Lewati"}
             -> s_semua
      [] OTHER -> s_oily

\* SKIN_TYPE_MAP_TO_CSV.get(skin_type, "semua")
SKIN_TYPE_MAP_TO_CSV(skin_type) ==
    CASE skin_type = "Normal" -> s_semua
      [] skin_type = "Berminyak" -> s_oily
      [] skin_type = "Kering" -> s_semua
      [] skin_type = "Kombinasi" -> s_semua
      [] skin_type = "Sensitive" -> s_semua
      [] skin_type = "Tidak Tahu / Lewati" -> s_semua
      [] OTHER -> s_semua

\* a mutated normalisation: any trailing "s" is dropped, as the CSV load does
acne_class_trailing_s(acne_class_raw) == str_replace_trailing_s(str_lower(acne_class_raw))

\* a mutated normalisation: the first entry of the lookup names the next plural
acne_class_shifted_lookup(acne_class_raw) ==
    LET l == str_lower(acne_class_raw)
    IN  CASE l = s_blackheads -> s_whiteheads
          [] l = s_whiteheads -> s_whitehead
          [] l = s_papules -> s_papule
          [] l = s_pustules -> s_pustule
          [] OTHER -> l

\* acne_class_for_csv: the raw label lower-cased, four plurals made singular
acne_class_for_csv(acne_class_raw) ==
    LET l == str_lower(acne_class_raw)
    IN  CASE l = s_blackheads -> s_blackhead
          [] l = s_whiteheads -> s_whitehead
          [] l = s_papules -> s_papule
          [] l = s_pustules -> s_pustule
          [] OTHER -> l

\* df[df[column] == value], rows kept in the frame's order
filtered_by_acne(df, acne) == SelectSeq(df, LAMBDA r : r.tingkat = acne)

filtered_by_skin(df, jenis_kulit) == SelectSeq(df, LAMBDA r : r.jenis_kulit = jenis_kulit)

\* a mutated lookup: the generic row is taken before the specific one
recom_row_generic_first(df, acne, skin_type) ==
    LET by_acne == filtered_by_acne(df, acne)
        general_skin_recom == filtered_by_skin(by_acne, s_semua)
        specific_skin_recom == filtered_by_skin(by_acne, SKIN_TYPE_MAP_TO_CSV(skin_type))
    IN  IF general_skin_recom # <<>> THEN <<general_skin_recom[1]>>
        ELSE IF specific_skin_recom # <<>> THEN <<specific_skin_recom[1]>>
        ELSE <<>>

\* a mutated lookup: no fallback to the generic row
recom_row_no_fallback(df, acne, skin_type) ==
    LET by_acne == filtered_by_acne(df, acne)
        specific_skin_recom == filtered_by_skin(by_acne, SKIN_TYPE_MAP_TO_CSV(skin_type))
    IN  IF specific_skin_recom # <<>> THEN <<specific_skin_recom[1]>> ELSE <<>>

\* a mutated lookup: with no row for the mapped key and none for "semua", any
\* row of the acne type is taken
recom_row_any_row(df, acne, skin_type) ==
    LET by_acne == filtered_by_acne(df, acne)
        specific_skin_recom == filtered_by_skin(by_acne, SKIN_TYPE_MAP_TO_CSV(skin_type))
        general_skin_recom == filtered_by_skin(by_acne, s_semua)
    IN  IF specific_skin_recom # <<>> THEN <<specific_skin_recom[1]>>
        ELSE IF general_skin_recom # <<>> THEN <<general_skin_recom[1]>>
        ELSE IF by_acne # <<>> THEN <<by_acne[1]>>
        ELSE <<>>

\* a mutated lookup: iloc[-1], the last of the rows that match
recom_row_last_match(df, acne, skin_type) ==
    LET by_acne == filtered_by_acne(df, acne)
        specific_skin_recom == filtered_by_skin(by_acne, SKIN_TYPE_MAP_TO_CSV(skin_type))
        general_skin_recom == filtered_by_skin(by_acne, s_semua)
    IN  IF specific_skin_recom # <<>> THEN <<specific_skin_recom[Len(specific_skin_recom)]>>
        ELSE IF general_skin_recom # <<>> THEN <<general_skin_recom[Len(general_skin_recom)]>>
        ELSE <<>>

\* recom_row: <<>> is None, <<r>> is the row chosen
recom_row_of(df, acne, skin_type) ==
    LET user_skin_type_csv == SKIN_TYPE_MAP_TO_CSV(skin_type)
        by_acne == filtered_by_acne(df, acne)
        specific_skin_recom == filtered_by_skin(by_acne, user_skin_type_csv)
        general_skin_recom == filtered_by_skin(by_acne, s_semua)
    IN  IF specific_skin_recom # <<>> THEN <<specific_skin_recom[1]>>
        ELSE IF general_skin_recom # <<>> THEN <<general_skin_recom[1]>>
        ELSE <<>>

(***************************************************************************)
(* Detection: the assets loaded at startup and the prediction.             *)
(*                                                                         *)
(* A score is written in hundredths: 60 is 0.6.  model.predict returns an  *)
(* array of shape (1, M); its one row is a sequence of M scores.           *)
(***************************************************************************)
\* largest score of the vectors model.predict is given to return
MaxScore == 1

Scores == 0..MaxScore

\* the label lists labels.txt can hold: the six labels the result display
\* names, and a list of three with capitals and with a plural the display does
\* not name
LabelFiles == {class_names, <<s_Papules, s_nodules, s_Cystic>>}

\* the prediction of the six-label scenario
scenario_prediction == <<10, 5, 60, 10, 5, 10>>

\* what a model of m outputs can predict
Predictions(m) ==
    [1..m -> Scores] \cup (IF m = Len(scenario_prediction) THEN {scenario_prediction} ELSE {})

\* what load_ml_assets() can return: (None, None), or a model with a label
\* list; nothing in it compares the model's output length with the list's
MlLoads ==
    {[model |-> 0, class_names |-> <<>>]}
        \cup UNION {{[model |-> m, class_names |-> names] :
                        m \in (Len(names) - 1)..(Len(names) + 1)} : names \in LabelFiles}

\* the files pengobatan.csv can be when detection runs: no row, or one row that
\* names a label of labels.txt as its 'tingkat', for every skin type
LabelCsvFiles ==
    {<<>>} \cup {<<[tingkat |-> l, jenis_kulit |-> s_semua]>> : l \in RawTingkat \cup {s_nodules}}

\* what load_recommendation_data() can return: None, or the frame
DataLoads ==
    {[loaded |-> FALSE, df |-> <<>>]}
        \cup {[loaded |-> TRUE, df |-> load_recommendation_data(csv)] : csv \in LabelCsvFiles}

\* a mutated cache: the function body runs at every call
uncached_call(slot, fresh) == [value |-> fresh, ran |-> 1]

\* a call of a function under st.cache_resource or st.cache_data: the body runs
\* when nothing is cached, and what it returns, None included, is what every
\* later call returns.  fresh is what the body would return now.
cached_call(slot, fresh) ==
    IF slot # <<>> THEN [value |-> slot[1], ran |-> 0] ELSE [value |-> fresh, ran |-> 1]

\* a mutated argmax: of equal largest scores the last one is taken
np_argmax_last(v) ==
    (CHOOSE i \in 1..Len(v) :
        /\ \A j \in 1..Len(v) : v[j] <= v[i]
        /\ \A j \in (i + 1)..Len(v) : v[j] < v[i]) - 1

\* np.argmax(acne_prediction): the index, from 0, of the first occurrence of the
\* largest score
np_argmax(v) ==
    (CHOOSE i \in 1..Len(v) :
        /\ \A j \in 1..Len(v) : v[j] <= v[i]
        /\ \A j \in 1..(i - 1) : v[j] < v[i]) - 1

(***************************************************************************)
(* The skin progress journal: values and pure helpers.                     *)
(*                                                                         *)
(* datetime.now() is the variable clock, in whole seconds.  strftime of    *)
(* "%Y%m%d_%H%M%S" and of "%Y-%m-%d %H:%M:%S" are both fixed-width and     *)
(* zero-padded, so each is one-to-one on seconds and the text order of     *)
(* 'date' is the order of the seconds: a date is written as its second.    *)
(* f"progress_image_{timestamp}.{file_extension}" is one-to-one on the     *)
(* pair, written [timestamp, ext].                                         *)
(*                                                                         *)
(* An entry is the dict {date, image_path, note}.  The field uid is a      *)
(* history value: it numbers the Save Progress run that built the dict, no *)
(* guard or update of the model reads it, and list.remove compares the     *)
(* three fields of the dict only.  The image store is the set of the file  *)
(* names it holds.                                                         *)
(***************************************************************************)
AllSessions == {1, 2}

\* last second of the clock
MaxClock == 1

\* most entries Save Progress builds in one behaviour
MaxAdds == 2

\* most file operations that raise in one behaviour
MaxFaults == 1

Extensions == {"jpg"}

Notes == {"", "itchy"}

\* outcomes of an open-then-write of a file: done; open() raises and the file is
\* as before; open() has truncated the file and the write raises
WriteOutcomes == {"ok", "open_raises", "write_raises"}

\* outcomes of os.remove
RemoveOutcomes == {"ok", "raises"}

\* 1 for a file operation that raises
Raised(io) == IF io = "ok" THEN 0 ELSE 1

\* the three fields of the dict
Fields(e) == [date |-> e.date, image_path |-> e.image_path, note |-> e.note]

Range(seq) == {seq[i] : i \in 1..Len(seq)}

\* open(image_path, "wb"): the file exists from here on, whether or not the
\* write that follows completes
write_image(store, name) == store \cup {name}

\* os.remove(path)
remove_image(store, name) == store \ {name}

\* a mutated sort: oldest first
sorted_oldest_first(entries) ==
    LET RECURSIVE Ins(_, _)
        Ins(acc, k) ==
            IF k > Len(entries) THEN acc
            ELSE LET e == entries[k]
                 IN  Ins(SelectSeq(acc, LAMBDA x : x.date <= e.date) \o <<e>>
                            \o SelectSeq(acc, LAMBDA x : x.date > e.date), k + 1)
    IN  Ins(<<>>, 1)

\* sorted(journal_entries, key=lambda x: x['date'], reverse=True): dates
\* descending; the sort is stable, so entries of one date keep their list order
sorted_by_date_desc(entries) ==
    LET RECURSIVE Ins(_, _)
        Ins(acc, k) ==
            IF k > Len(entries) THEN acc
            ELSE LET e == entries[k]
                 IN  Ins(SelectSeq(acc, LAMBDA x : x.date >= e.date) \o <<e>>
                            \o SelectSeq(acc, LAMBDA x : x.date < e.date), k + 1)
    IN  Ins(<<>>, 1)

\* a mutated remove: every entry of the same date goes
list_remove_same_date(entries, entry) == SelectSeq(entries, LAMBDA x : x.date # entry.date)

\* a mutated remove: the list is left as it is
list_remove_nothing(entries, entry) == entries

\* journal_entries.remove(entry): the first element equal to entry goes
list_remove(entries, entry) ==
    IF \E i \in 1..Len(entries) : Fields(entries[i]) = Fields(entry)
    THEN LET i == CHOOSE j \in 1..Len(entries) :
                      /\ Fields(entries[j]) = Fields(entry)
                      /\ \A k \in 1..(j - 1) : Fields(entries[k]) # Fields(entry)
         IN  SubSeq(entries, 1, i - 1) \o SubSeq(entries, i + 1, Len(entries))
    ELSE entries

\* a mutated entry: the note box is stored as typed, empty or not
new_entry_raw_note(date, image_filename, journal_note, uid) ==
    [date |-> date, image_path |-> image_filename, note |-> journal_note, uid |-> uid]

\* new_entry
new_entry(date, image_filename, journal_note, uid) ==
    [date |-> date,
     image_path |-> image_filename,
     note |-> IF journal_note # "" THEN journal_note ELSE "No note.",
     uid |-> uid]

(***************************************************************************)
(* State.                                                                  *)
(***************************************************************************)
VARIABLES
    df_pengobatan,    \* the recommendation table loaded at startup
    acne_class_raw,   \* the label the result display last showed
    skin_type,        \* the skin type selection stored with the prediction
    recom_row,        \* the row the display last chose: <<>> or <<row>>
    recom_view,       \* what the recommendation section last rendered
    sessions,         \* the browser sessions that run the script
    clock,            \* datetime.now(), in seconds
    metadata_file,    \* journal_metadata.json: [status, entries]
    image_store,      \* the names of the image files in progress_journal_data
    journal_entries,  \* per session: the list of the script run
    pc,               \* per session: "idle", "loaded" (line 46 done, a handler is due), "rerun"
    widget,           \* per session: the button whose press started the script run
    sorted_entries,   \* per session: the history the page shows
    outcome,          \* per session: what the last handler did and reported
    next_uid,         \* history: the number of the next dict built
    io_faults,        \* history: the file operations that have raised so far
    deleted,          \* history: uids a Delete This Entry handler removed and saved
    model,            \* the global model: 0 is None, else the length of the vectors it predicts
    loaded_class_names,      \* the global class_names: <<>> is None
    df_loaded,        \* df_pengobatan is not None
    asset_cache,      \* what st.cache_resource and st.cache_data hold
    acne_prediction_results, \* st.session_state: <<>> or <<[prediction, skin_type]>>
    detect_outcome,   \* what the last run reported about detection
    acne_index,       \* np.argmax of the prediction displayed, from 0; -1 before any
    acne_confidence,  \* the score the result box shows
    acne_class_csv,   \* the value of acne_class_for_csv the display computed
    user_skin_type_csv,      \* the key the display looked the selection up under
    photo_scores      \* what model.predict makes of the user's photo: <<>> when it raises

recom_vars == <<df_pengobatan, acne_class_raw, skin_type, recom_row, recom_view>>

journal_vars ==
    <<sessions, clock, metadata_file, image_store, journal_entries, pc, widget,
      sorted_entries, outcome, next_uid, io_faults, deleted>>

detect_vars ==
    <<model, loaded_class_names, df_loaded, asset_cache, acne_prediction_results,
      detect_outcome, acne_index, acne_confidence, acne_class_csv, user_skin_type_csv,
      photo_scores>>

vars == <<recom_vars, journal_vars, detect_vars>>

NoWidget == [button |-> "none", key |-> 0]

NoOutcome ==
    [op |-> "none", result |-> "none", typed |-> "", entry |-> <<>>, image |-> "none",
     meta |-> "none"]

\* the journal before the first run: no metadata file, no image
JournalAtStart(ss) ==
    /\ sessions = ss
    /\ clock = 0
    /\ metadata_file = [status |-> "absent", entries |-> <<>>]
    /\ image_store = {}
    /\ journal_entries = [s \in AllSessions |-> <<>>]
    /\ pc = [s \in AllSessions |-> "idle"]
    /\ widget = [s \in AllSessions |-> NoWidget]
    /\ sorted_entries = [s \in AllSessions |-> <<>>]
    /\ outcome = [s \in AllSessions |-> NoOutcome]
    /\ next_uid = 1
    /\ io_faults = 0
    /\ deleted = {}

\* before the first script run nothing is loaded and nothing is cached
AssetsAtStart ==
    /\ model = 0
    /\ loaded_class_names = <<>>
    /\ df_loaded = FALSE
    /\ asset_cache = [ml |-> <<>>, data |-> <<>>]
    /\ photo_scores = <<>>

NoDetectOutcome ==
    [result |-> "none", display |-> "none", predict_called |-> FALSE, loads_run |-> 0]

\* no prediction stored, none displayed
NoDetection ==
    /\ acne_prediction_results = <<>>
    /\ detect_outcome = NoDetectOutcome
    /\ acne_index = -1
    /\ acne_confidence = 0
    /\ acne_class_csv = <<>>
    /\ user_skin_type_csv = <<>>

\* no prediction displayed yet
DisplayAtStart ==
    /\ acne_class_raw = <<>>
    /\ skin_type = "Tidak Tahu / Lewati"
    /\ recom_row = <<>>
    /\ recom_view = "none"

(***************************************************************************)
(* The recommendation section of the result display.                       *)
(***************************************************************************)
InitRecom ==
    /\ df_pengobatan \in {load_recommendation_data(csv) : csv \in CsvFiles}
    /\ DisplayAtStart
    /\ JournalAtStart({1})
    /\ model = Len(class_names)
    /\ loaded_class_names = class_names
    /\ df_loaded = TRUE
    /\ asset_cache =
           [ml |-> <<[model |-> model, class_names |-> loaded_class_names]>>,
            data |-> <<[loaded |-> TRUE, df |-> df_pengobatan]>>]
    /\ photo_scores = <<>>
    /\ NoDetection

\* the display of a stored prediction whose argmax is label i, for selection s:
\* the recommendation box when a row is found, the "not yet available" warning
\* when none is
DisplayResults(i, s) ==
    /\ acne_class_raw' = class_names[i]
    /\ skin_type' = s
    /\ recom_row' = recom_row_of(df_pengobatan, acne_class_for_csv(class_names[i]), s)
    /\ recom_view' = IF recom_row' # <<>> THEN "recommendation" ELSE "not_available"
    /\ UNCHANGED <<df_pengobatan, journal_vars, detect_vars>>

NextRecom == \E i \in 1..Len(class_names), s \in SkinTypeOptions : DisplayResults(i, s)

SpecRecom == InitRecom /\ [][NextRecom]_vars

(***************************************************************************)
(* Detection.  Lines 136-137 run at the top of every script run, through   *)
(* the caches; the asset files do not change while the application runs.   *)
(* The handler of "Start Acne Detection" stores the prediction and asks    *)
(* for a rerun; the run that follows displays what is stored.              *)
(***************************************************************************)
\* the skin type selections detection is run with
DetectSkinTypes == {"Berminyak", "Kering"}

\* img_data: nothing uploaded, a photo, bytes that are no image
ImageInputs == {"none", "image", "not_an_image"}

\* lines 136-137 of a run, ml and data being what the two function bodies
\* return when they run
LoadAssets(ml, data) ==
    LET m == cached_call(asset_cache.ml, ml)
        d == cached_call(asset_cache.data, data)
    IN  /\ model' = m.value.model
        /\ loaded_class_names' = m.value.class_names
        /\ df_loaded' = d.value.loaded
        /\ df_pengobatan' = d.value.df
        /\ asset_cache' = [ml |-> <<m.value>>, data |-> <<d.value>>]

\* the function bodies lines 136-137 ran
LoadsRun(ml, data) ==
    cached_call(asset_cache.ml, ml).ran + cached_call(asset_cache.data, data).ran

\* how far the result section of the page got: not rendered when nothing is
\* stored; class_names[acne_index] raises IndexError for an index past the list
\* (line 647) and classes_display[i] does for a prediction longer than the list
\* (line 699), nothing catches either, and the page ends there
PageStatus ==
    IF acne_prediction_results = <<>> THEN "none"
    ELSE IF acne_index >= Len(loaded_class_names) THEN "IndexError_647"
    ELSE IF Len(acne_prediction_results[1].prediction) > Len(loaded_class_names)
    THEN "IndexError_699"
    ELSE "shown"

\* lines 637-761 of a run, after the globals and the stored results of the run
\* are settled
ShowResults ==
    /\ acne_index' =
           IF acne_prediction_results' = <<>> THEN -1
           ELSE np_argmax(acne_prediction_results'[1].prediction)
    /\ LET status == PageStatus'
           labelled == status \in {"IndexError_699", "shown"}
           looked_up == status = "shown" /\ df_loaded'
       IN  /\ acne_class_raw' =
                  IF labelled THEN loaded_class_names'[acne_index' + 1] ELSE <<>>
           /\ acne_confidence' =
                  IF labelled THEN acne_prediction_results'[1].prediction[acne_index' + 1]
                  ELSE 0
           /\ acne_class_csv' = IF labelled THEN acne_class_for_csv(acne_class_raw') ELSE <<>>
           /\ skin_type' =
                  IF status = "none" THEN "Tidak Tahu / Lewati"
                  ELSE acne_prediction_results'[1].skin_type
           /\ user_skin_type_csv' =
                  IF looked_up THEN SKIN_TYPE_MAP_TO_CSV(skin_type') ELSE <<>>
           /\ recom_row' =
                  IF looked_up THEN recom_row_of(df_pengobatan', acne_class_csv', skin_type')
                  ELSE <<>>
           /\ recom_view' =
                  IF status # "shown" THEN "none"
                  ELSE IF ~df_loaded' THEN "not_loaded"
                  ELSE IF recom_row' # <<>> THEN "recommendation"
                  ELSE "not_available"

\* a run with none of the two buttons pressed, ml and data as in LoadAssets
RunScript(ml, data) ==
    /\ LoadAssets(ml, data)
    /\ UNCHANGED acne_prediction_results
    /\ ShowResults
    /\ detect_outcome' =
           [result |-> "none", display |-> PageStatus', predict_called |-> FALSE,
            loads_run |-> LoadsRun(ml, data)]
    /\ UNCHANGED journal_vars

\* the first run of the script: the two function bodies run.  predicted is what
\* the model that was loaded makes of the photo the user has at hand.
FirstRun(ml, data, predicted) ==
    /\ asset_cache.ml = <<>>
    /\ RunScript(ml, data)
    /\ photo_scores' = predicted

\* a later run with no button pressed: after st.experimental_rerun(), or after
\* the user has touched another widget
ScriptRun ==
    /\ asset_cache.ml # <<>>
    /\ RunScript(asset_cache.ml[1], asset_cache.data[1])
    /\ UNCHANGED photo_scores

\* "Start Acne Detection" pressed, lines 588-627, the selectbox showing sel and
\* img being what is uploaded
StartAcneDetection(img, sel) ==
    /\ asset_cache.ml # <<>>
    /\ detect_outcome.result # "rerun"
    /\ LoadAssets(asset_cache.ml[1], asset_cache.data[1])
    /\ LET loads == LoadsRun(asset_cache.ml[1], asset_cache.data[1])
           predicted == photo_scores
           said(r, called) ==
               \* the handler's message, then the result section of the same run
               /\ UNCHANGED acne_prediction_results
               /\ ShowResults
               /\ detect_outcome' =
                      [result |-> r, display |-> PageStatus', predict_called |-> called,
                       loads_run |-> loads]
       IN  IF model' = 0 \/ loaded_class_names' = <<>> \/ ~df_loaded'
           THEN said("not_ready", FALSE)
           ELSE IF img = "none"
           THEN said("no_image", FALSE)
           ELSE IF img = "not_an_image"
           THEN \* Image.open raises: caught at line 625
                said("detect_failed", FALSE)
           ELSE IF predicted = <<>>
           THEN \* model.predict raises: caught at line 625
                said("detect_failed", TRUE)
           ELSE \* lines 618-623: the results are stored and the run ends
                /\ acne_prediction_results' = <<[prediction |-> predicted, skin_type |-> sel]>>
                /\ detect_outcome' =
                       [result |-> "rerun", display |-> "none", predict_called |-> TRUE,
                        loads_run |-> loads]
                /\ UNCHANGED <<acne_index, acne_confidence, acne_class_raw, acne_class_csv,
                               skin_type, user_skin_type_csv, recom_row, recom_view>>
    /\ UNCHANGED <<journal_vars, photo_scores>>

\* "Restart / Clear" pressed, lines 630-633
RestartClear ==
    /\ asset_cache.ml # <<>>
    /\ detect_outcome.result # "rerun"
    /\ LoadAssets(asset_cache.ml[1], asset_cache.data[1])
    /\ acne_prediction_results' = <<>>
    /\ detect_outcome' =
           [result |-> "rerun", display |-> "none", predict_called |-> FALSE,
            loads_run |-> LoadsRun(asset_cache.ml[1], asset_cache.data[1])]
    /\ UNCHANGED <<acne_index, acne_confidence, acne_class_raw, acne_class_csv, skin_type,
                   user_skin_type_csv, recom_row, recom_view>>
    /\ UNCHANGED <<journal_vars, photo_scores>>

InitDetect ==
    /\ df_pengobatan = <<>>
    /\ DisplayAtStart
    /\ JournalAtStart({1})
    /\ AssetsAtStart
    /\ NoDetection

NextDetect ==
    \/ /\ asset_cache.ml = <<>>
       /\ \E ml \in MlLoads, data \in DataLoads :
             \E predicted \in {<<>>} \cup Predictions(ml.model) : FirstRun(ml, data, predicted)
    \/ ScriptRun
    \/ \E img \in ImageInputs, sel \in DetectSkinTypes : StartAcneDetection(img, sel)
    \/ RestartClear

SpecDetect == InitDetect /\ [][NextDetect]_vars

(***************************************************************************)
(* The two join keys as functions of their inputs: lines 650-658 applied   *)
(* to a label text and line 726 applied to a selection, whatever they are. *)
(***************************************************************************)
\* label texts: the labels of the label lists, and two singular forms
LabelTexts ==
    UNION {{names[i] : i \in 1..Len(names)} : names \in LabelFiles} \cup {s_blackhead, s_nodule}

\* selections: the options of the selectbox, and texts that are none of them
SkinTypeInputs == SkinTypeOptions \cup {"Oily", "berminyak", "Dry", ""}

JoinKeys(label, selection) ==
    /\ acne_class_raw' = label
    /\ acne_class_csv' = acne_class_for_csv(label)
    /\ skin_type' = selection
    /\ user_skin_type_csv' = SKIN_TYPE_MAP_TO_CSV(selection)
    /\ UNCHANGED <<df_pengobatan, recom_row, recom_view, journal_vars, model,
                   loaded_class_names, df_loaded, asset_cache, acne_prediction_results,
                   detect_outcome, acne_index, acne_confidence, photo_scores>>

NextJoinKeys == \E label \in LabelTexts, selection \in SkinTypeInputs : JoinKeys(label, selection)

SpecJoinKeys == InitDetect /\ [][NextJoinKeys]_vars

(***************************************************************************)
(* The journal.  Every interaction runs the script from the top: line 46   *)
(* loads the list, then the handler of the button that was pressed runs,   *)
(* then the history is rendered.  st.experimental_rerun() ends the run and *)
(* starts another one with no button pressed.                              *)
(***************************************************************************)
\* a mutated save: the file keeps the entries it has and gains the new ones
save_journal_entries_keep(entries, io) ==
    IF io = "ok"
    THEN [status |-> "valid",
          entries |-> metadata_file.entries
                        \o SelectSeq(entries, LAMBDA e : e \notin Range(metadata_file.entries))]
    ELSE IF io = "open_raises" THEN metadata_file
    ELSE [status |-> "corrupt", entries |-> <<>>]

\* a mutated save: the file is opened for appending, so the list lands after
\* what the file already holds
save_journal_entries_append(entries, io) ==
    IF io = "ok" THEN [status |-> "valid", entries |-> metadata_file.entries \o entries]
    ELSE IF io = "open_raises" THEN metadata_file
    ELSE [status |-> "corrupt", entries |-> <<>>]

\* save_journal_entries(entries): the file after the call.  open(.., 'w') may
\* raise with the file untouched; once it has truncated the file a failing
\* json.dump leaves text that is not JSON.
save_journal_entries(entries, io) ==
    IF io = "ok" THEN [status |-> "valid", entries |-> entries]
    ELSE IF io = "open_raises" THEN metadata_file
    ELSE [status |-> "corrupt", entries |-> <<>>]

\* load_journal_entries(): [] without the file, json.load(f) with it
load_journal_entries == metadata_file.entries

\* the script starts for session s and runs line 46, a button b having been
\* pressed: the handler of b is due.  json.load raises on a file that is not
\* JSON and nothing catches it at line 46: the run ends there, before any
\* handler and before the history.
StartRun(s, b) ==
    /\ s \in sessions
    /\ IF metadata_file.status = "corrupt"
       THEN /\ pc' = [pc EXCEPT ![s] = "idle"]
            /\ journal_entries' = [journal_entries EXCEPT ![s] = <<>>]
            /\ sorted_entries' = [sorted_entries EXCEPT ![s] = <<>>]
            /\ outcome' = [outcome EXCEPT ![s] = [NoOutcome EXCEPT !.result = "uncaught_load"]]
            /\ UNCHANGED widget
       ELSE /\ pc' = [pc EXCEPT ![s] = "loaded"]
            /\ journal_entries' = [journal_entries EXCEPT ![s] = load_journal_entries]
            /\ outcome' = [outcome EXCEPT ![s] = NoOutcome]
            /\ widget' = [widget EXCEPT ![s] = b]
            /\ UNCHANGED sorted_entries
    /\ UNCHANGED <<recom_vars, detect_vars, sessions, clock, metadata_file, image_store,
                   next_uid, io_faults, deleted>>

\* a script run with no journal button pressed: line 46, then the history of
\* lines 875-877.  o is what the page reports besides.
PlainRun(s, o) ==
    /\ s \in sessions
    /\ pc' = [pc EXCEPT ![s] = "idle"]
    /\ IF metadata_file.status = "corrupt"
       THEN /\ journal_entries' = [journal_entries EXCEPT ![s] = <<>>]
            /\ sorted_entries' = [sorted_entries EXCEPT ![s] = <<>>]
            /\ outcome' = [outcome EXCEPT ![s] = [NoOutcome EXCEPT !.result = "uncaught_load"]]
       ELSE /\ journal_entries' = [journal_entries EXCEPT ![s] = load_journal_entries]
            /\ sorted_entries' =
                   [sorted_entries EXCEPT ![s] = sorted_by_date_desc(load_journal_entries)]
            /\ outcome' = [outcome EXCEPT ![s] = o]
    /\ UNCHANGED <<recom_vars, detect_vars, sessions, clock, metadata_file, image_store, widget,
                   next_uid, io_faults, deleted>>

\* the user presses "Save Progress"
ClickSaveProgress(s) ==
    /\ pc[s] = "idle"
    /\ StartRun(s, [button |-> "save", key |-> 0])

\* the user presses the "Delete This Entry" button of an entry the page shows;
\* the button's key is built from the entry's date
ClickDeleteThisEntry(s, key) ==
    /\ pc[s] = "idle"
    /\ key \in {e.date : e \in Range(sorted_entries[s])}
    /\ StartRun(s, [button |-> "delete", key |-> key])

\* the user touches any other widget: the journal is listed
Interact(s) ==
    /\ pc[s] = "idle"
    /\ PlainRun(s, NoOutcome)

\* the run st.experimental_rerun() asked for: the page of the handler's result
Rerun(s) ==
    /\ pc[s] = "rerun"
    /\ PlainRun(s, outcome[s])

\* the clock passes to the next second
Tick ==
    /\ clock < MaxClock
    /\ clock' = clock + 1
    /\ UNCHANGED <<recom_vars, detect_vars, sessions, metadata_file, image_store,
                   journal_entries, pc, widget, sorted_entries, outcome, next_uid, io_faults,
                   deleted>>

\* "Save Progress" pressed with no photo: the warning of line 870, then the history
SaveProgressNoPhoto(s, journal_note) ==
    /\ s \in sessions
    /\ pc[s] = "loaded"
    /\ widget[s].button = "save"
    /\ outcome' = [outcome EXCEPT ![s] =
           [NoOutcome EXCEPT !.op = "add", !.result = "no_upload", !.typed = journal_note]]
    /\ sorted_entries' = [sorted_entries EXCEPT ![s] = sorted_by_date_desc(journal_entries[s])]
    /\ pc' = [pc EXCEPT ![s] = "idle"]
    /\ widget' = [widget EXCEPT ![s] = NoWidget]
    /\ UNCHANGED <<recom_vars, detect_vars, sessions, clock, metadata_file, image_store,
                   journal_entries, next_uid, io_faults, deleted>>

\* "Save Progress" pressed with a photo whose name ends in file_extension, lines
\* 847-868.  img_io and meta_io are what the two file writes do; dt is 1 when the
\* second changes between the two calls of datetime.now().
SaveProgress(s, file_extension, journal_note, img_io, meta_io, dt) ==
    /\ s \in sessions
    /\ pc[s] = "loaded"
    /\ widget[s].button = "save"
    /\ LET image_filename == [timestamp |-> clock, ext |-> file_extension]
       IN  IF img_io # "ok"
           THEN \* open(image_path, "wb") or f.write raises: caught at line 867
                /\ meta_io = "ok"
                /\ dt = 0
                /\ image_store' =
                       IF img_io = "open_raises" THEN image_store
                       ELSE write_image(image_store, image_filename)
                /\ outcome' = [outcome EXCEPT ![s] =
                       [op |-> "add", result |-> "save_failed", typed |-> journal_note,
                        entry |-> <<>>, image |-> img_io, meta |-> "none"]]
                /\ sorted_entries' =
                       [sorted_entries EXCEPT ![s] = sorted_by_date_desc(journal_entries[s])]
                /\ pc' = [pc EXCEPT ![s] = "idle"]
                /\ UNCHANGED <<clock, metadata_file, journal_entries, next_uid>>
           ELSE /\ next_uid <= MaxAdds
                /\ clock + dt <= MaxClock
                /\ clock' = clock + dt
                /\ image_store' = write_image(image_store, image_filename)
                /\ LET entry == new_entry(clock + dt, image_filename, journal_note, next_uid)
                       appended == Append(journal_entries[s], entry)
                   IN  /\ journal_entries' = [journal_entries EXCEPT ![s] = appended]
                       /\ metadata_file' = save_journal_entries(appended, meta_io)
                       /\ next_uid' = next_uid + 1
                       /\ IF meta_io = "ok"
                          THEN \* st.success, then st.experimental_rerun()
                               /\ outcome' = [outcome EXCEPT ![s] =
                                      [op |-> "add", result |-> "saved", typed |-> journal_note,
                                       entry |-> <<entry>>, image |-> "ok", meta |-> "ok"]]
                               /\ pc' = [pc EXCEPT ![s] = "rerun"]
                               /\ UNCHANGED sorted_entries
                          ELSE \* save_journal_entries raises: caught at line 867,
                               \* the script goes on to the history
                               /\ outcome' = [outcome EXCEPT ![s] =
                                      [op |-> "add", result |-> "save_failed",
                                       typed |-> journal_note, entry |-> <<entry>>,
                                       image |-> "ok", meta |-> meta_io]]
                               /\ sorted_entries' =
                                      [sorted_entries EXCEPT ![s] = sorted_by_date_desc(appended)]
                               /\ pc' = [pc EXCEPT ![s] = "idle"]
    /\ io_faults' = io_faults + Raised(img_io) + Raised(meta_io)
    /\ io_faults' <= MaxFaults
    /\ widget' = [widget EXCEPT ![s] = NoWidget]
    /\ UNCHANGED <<recom_vars, detect_vars, sessions, deleted>>

\* a "Delete This Entry" button was pressed, lines 877-903.  The loop renders the
\* sorted entries in turn; the first one whose button key is the pressed key runs
\* the handler, which ends the run (by st.experimental_rerun() or by an
\* exception nothing catches).  meta_io and rm_io are what the rewrite of the
\* metadata file and os.remove do.
DeleteThisEntry(s, meta_io, rm_io) ==
    /\ s \in sessions
    /\ pc[s] = "loaded"
    /\ widget[s].button = "delete"
    /\ LET shown == sorted_by_date_desc(journal_entries[s])
           hits == {i \in 1..Len(shown) : shown[i].date = widget[s].key}
       IN  IF hits = {}
           THEN \* no button of this run has the key: the history is rendered
                /\ meta_io = "ok"
                /\ rm_io = "ok"
                /\ sorted_entries' = [sorted_entries EXCEPT ![s] = shown]
                /\ pc' = [pc EXCEPT ![s] = "idle"]
                /\ UNCHANGED <<metadata_file, image_store, journal_entries, outcome, deleted>>
           ELSE LET k == CHOOSE i \in hits : \A j \in hits : i <= j
                    entry == shown[k]
                    removed == list_remove(journal_entries[s], entry)
                    exists == entry.image_path \in image_store
                IN  /\ journal_entries' = [journal_entries EXCEPT ![s] = removed]
                    /\ metadata_file' = save_journal_entries(removed, meta_io)
                    /\ deleted' = IF meta_io = "ok" THEN deleted \cup {entry.uid} ELSE deleted
                    /\ IF meta_io # "ok"
                       THEN \* save_journal_entries raises at line 897
                            /\ rm_io = "ok"
                            /\ outcome' = [outcome EXCEPT ![s] =
                                   [op |-> "delete", result |-> "uncaught", typed |-> "",
                                    entry |-> <<entry>>, image |-> "none", meta |-> meta_io]]
                            /\ sorted_entries' = [sorted_entries EXCEPT ![s] = SubSeq(shown, 1, k)]
                            /\ pc' = [pc EXCEPT ![s] = "idle"]
                            /\ UNCHANGED image_store
                       ELSE IF ~exists
                       THEN \* os.path.exists is false: line 902, then the rerun
                            /\ rm_io = "ok"
                            /\ outcome' = [outcome EXCEPT ![s] =
                                   [op |-> "delete", result |-> "deleted", typed |-> "",
                                    entry |-> <<entry>>, image |-> "missing", meta |-> "ok"]]
                            /\ pc' = [pc EXCEPT ![s] = "rerun"]
                            /\ UNCHANGED <<image_store, sorted_entries>>
                       ELSE IF rm_io = "ok"
                       THEN \* lines 900-903
                            /\ image_store' = remove_image(image_store, entry.image_path)
                            /\ outcome' = [outcome EXCEPT ![s] =
                                   [op |-> "delete", result |-> "deleted", typed |-> "",
                                    entry |-> <<entry>>, image |-> "removed", meta |-> "ok"]]
                            /\ pc' = [pc EXCEPT ![s] = "rerun"]
                            /\ UNCHANGED sorted_entries
                       ELSE \* os.remove raises at line 900
                            /\ outcome' = [outcome EXCEPT ![s] =
                                   [op |-> "delete", result |-> "uncaught", typed |-> "",
                                    entry |-> <<entry>>, image |-> "remove_raises",
                                    meta |-> "ok"]]
                            /\ sorted_entries' = [sorted_entries EXCEPT ![s] = SubSeq(shown, 1, k)]
                            /\ pc' = [pc EXCEPT ![s] = "idle"]
                            /\ UNCHANGED image_store
    /\ io_faults' = io_faults + Raised(meta_io) + Raised(rm_io)
    /\ io_faults' <= MaxFaults
    /\ widget' = [widget EXCEPT ![s] = NoWidget]
    /\ UNCHANGED <<recom_vars, detect_vars, sessions, clock, next_uid>>

Next ==
    \/ Tick
    \/ \E s \in AllSessions :
        \/ ClickSaveProgress(s)
        \/ \E key \in 0..MaxClock : ClickDeleteThisEntry(s, key)
        \/ Interact(s)
        \/ Rerun(s)
        \/ \E journal_note \in Notes : SaveProgressNoPhoto(s, journal_note)
        \/ \E file_extension \in Extensions, journal_note \in Notes,
              img_io \in WriteOutcomes, meta_io \in WriteOutcomes, dt \in {0, 1} :
               SaveProgress(s, file_extension, journal_note, img_io, meta_io, dt)
        \/ \E meta_io \in WriteOutcomes, rm_io \in RemoveOutcomes :
               DeleteThisEntry(s, meta_io, rm_io)

\* one session: the deployment the program is written for
Init ==
    /\ df_pengobatan = <<>>
    /\ DisplayAtStart
    /\ JournalAtStart({1})
    /\ AssetsAtStart
    /\ NoDetection

Spec == Init /\ [][Next]_vars

\* two sessions share the journal directory
InitTwoSessions ==
    /\ df_pengobatan = <<>>
    /\ DisplayAtStart
    /\ JournalAtStart(AllSessions)
    /\ AssetsAtStart
    /\ NoDetection

\* the steps of two sessions on a disk that does not fail: every file operation
\* completes, so whatever goes missing is lost to the interleaving alone.  The
\* note box is filled in and the second does not change inside a handler.
NextTwoSessions ==
    \/ Tick
    \/ \E s \in AllSessions :
        \/ ClickSaveProgress(s)
        \/ \E key \in 0..MaxClock : ClickDeleteThisEntry(s, key)
        \/ Interact(s)
        \/ Rerun(s)
        \/ \E journal_note \in Notes : SaveProgressNoPhoto(s, journal_note)
        \/ \E file_extension \in Extensions, journal_note \in Notes \ {""} :
               SaveProgress(s, file_extension, journal_note, "ok", "ok", 0)
        \/ \E rm_io \in {"ok"} : DeleteThisEntry(s, "ok", rm_io)

SpecTwoSessions == InitTwoSessions /\ [][NextTwoSessions]_vars

(***************************************************************************)
(* Properties.                                                             *)
(***************************************************************************)
Min(S) == CHOOSE x \in S : \A y \in S : x <= y

Uids(entries) == {entries[i].uid : i \in 1..Len(entries)}

\* the recommendation section has rendered a lookup
Displayed == recom_view # "none"

\* the join key of the label displayed
DisplayedKey == acne_class_for_csv(acne_class_raw)

\* the rows of the table for acne type x, and those of x for skin key k
RowsOf(x) == {i \in 1..Len(df_pengobatan) : df_pengobatan[i].tingkat = x}

RowsOfSkin(x, k) == {i \in RowsOf(x) : df_pengobatan[i].jenis_kulit = k}

\* the selections that name a skin type
SpecificSkinTypes == SkinTypeOptions \ {"Tidak Tahu / Lewati"}

\* the 'jenis kulit' text that names a selection
NamedKey(t) ==
    CASE t = "Berminyak" -> s_oily
      [] t = "Kering" -> s_kering
      [] t = "Normal" -> s_normal
      [] t = "Kombinasi" -> s_kombinasi
      [] t = "Sensitive" -> s_sensitive

\* the key the lookup is to use for a selection: "oily" for the oily one,
\* "semua" for every other
ExpectedKey(t) == IF t = "Berminyak" THEN s_oily ELSE s_semua

\* C1, as claimed: for every acne type X and every specific skin type T, when
\* the table holds a row (X, T) and a row (X, "semua"), the lookup for (X, T)
\* returns the (X, T) row and never the (X, "semua") row.
C1_SpecificRowForEverySkinType ==
    (/\ Displayed
     /\ skin_type \in SpecificSkinTypes
     /\ RowsOfSkin(DisplayedKey, NamedKey(skin_type)) # {}
     /\ RowsOfSkin(DisplayedKey, s_semua) # {})
    => /\ recom_row # <<>>
       /\ recom_row[1].tingkat = DisplayedKey
       /\ recom_row[1].jenis_kulit = NamedKey(skin_type)

\* C1, amended: the specific row is preferred for the oily selection only.  When
\* the table holds a row (X, "oily") and a row (X, "semua"), the lookup for X and
\* the oily selection returns the first (X, "oily") row, never the "semua" row;
\* for every other specific skin type the lookup returns the first (X, "semua")
\* row, also when a row (X, T) exists.
C1_SpecificRowForOilyOnly ==
    (/\ Displayed
     /\ skin_type \in SpecificSkinTypes
     /\ RowsOfSkin(DisplayedKey, s_semua) # {})
    => IF skin_type = "Berminyak" /\ RowsOfSkin(DisplayedKey, s_oily) # {}
       THEN recom_row = <<df_pengobatan[Min(RowsOfSkin(DisplayedKey, s_oily))]>>
       ELSE recom_row = <<df_pengobatan[Min(RowsOfSkin(DisplayedKey, s_semua))]>>

\* C1, reached: the oily selection with an oily row after a "semua" row of the
\* acne type, and the oily row displayed
C1_Witness ==
    /\ Displayed
    /\ skin_type = "Berminyak"
    /\ RowsOfSkin(DisplayedKey, s_oily) # {}
    /\ RowsOfSkin(DisplayedKey, s_semua) # {}
    /\ Min(RowsOfSkin(DisplayedKey, s_semua)) < Min(RowsOfSkin(DisplayedKey, s_oily))
    /\ recom_row # <<>>
    /\ recom_row[1].jenis_kulit = s_oily

\* C2: for an acne type X whose only rows have skin type "semua", the lookup
\* returns the first of them for every skin type selection.
C2_FallbackToGenericRow ==
    (/\ Displayed
     /\ RowsOf(DisplayedKey) # {}
     /\ \A i \in RowsOf(DisplayedKey) : df_pengobatan[i].jenis_kulit = s_semua)
    => recom_row = <<df_pengobatan[Min(RowsOf(DisplayedKey))]>>

\* C2, reached: the oily selection, whose key has no row, gets the first of two
\* "semua" rows
C2_Witness ==
    /\ Displayed
    /\ skin_type = "Berminyak"
    /\ Cardinality(RowsOf(DisplayedKey)) >= 2
    /\ \A i \in RowsOf(DisplayedKey) : df_pengobatan[i].jenis_kulit = s_semua
    /\ recom_row = <<df_pengobatan[Min(RowsOf(DisplayedKey))]>>

\* C3: for an acne type with no row, and for one whose rows match neither the
\* mapped skin key nor "semua", the lookup ends in the "not yet available"
\* message with no row chosen, for every selection; it has no other outcome.
C3_NotFoundIsNormal ==
    /\ recom_view \in {"none", "recommendation", "not_available"}
    /\ (/\ Displayed
        /\ \A i \in RowsOf(DisplayedKey) :
               df_pengobatan[i].jenis_kulit \notin {ExpectedKey(skin_type), s_semua})
       => /\ recom_row = <<>>
          /\ recom_view = "not_available"

\* C3, reached: the acne type has rows, all for "kering"; the selection is the
\* one that names them, and still nothing is found
C3_Witness ==
    /\ Displayed
    /\ skin_type = "Kering"
    /\ RowsOf(DisplayedKey) # {}
    /\ \A i \in RowsOf(DisplayedKey) : df_pengobatan[i].jenis_kulit = s_kering
    /\ recom_row = <<>>
    /\ recom_view = "not_available"

\* session s has come to rest after a handler that reported r for operation op
Rested(s, op, r) ==
    /\ s \in sessions
    /\ pc[s] = "idle"
    /\ outcome[s].op = op
    /\ outcome[s].result = r

\* C4, as claimed: after every add and every delete, succeeded or failed, the
\* in-memory list equals the sequence of entries in the metadata store.
C4_ListEqualsStoreAfterEveryOperation ==
    \A s \in sessions :
        (pc[s] = "idle" /\ outcome[s].op \in {"add", "delete"})
        => /\ metadata_file.status # "corrupt"
           /\ journal_entries[s] = metadata_file.entries

\* C5, as claimed: after a successful add with a non-empty note the listing
\* holds the entry with that note, its image file exists, and the entry is the
\* first element of the listing.
C5_NewEntryIsFirst ==
    \A s \in sessions :
        (Rested(s, "add", "saved") /\ outcome[s].typed # "")
        => LET e == outcome[s].entry[1]
           IN  /\ e.note = outcome[s].typed
               /\ e.image_path \in image_store
               /\ sorted_entries[s] # <<>>
               /\ sorted_entries[s][1] = e

\* C5, amended: after a successful add with a non-empty note the listing holds
\* the entry with that note, its image file exists, no listed entry has a later
\* date, and the only entries listed before it are entries of the same date
\* (saved within the same clock second); it is first when no other entry has
\* its date.
C5_NewEntryIsNewest ==
    \A s \in sessions :
        (Rested(s, "add", "saved") /\ outcome[s].typed # "")
        => LET e == outcome[s].entry[1]
               l == sorted_entries[s]
           IN  /\ e.note = outcome[s].typed
               /\ e.image_path \in image_store
               /\ \E k \in 1..Len(l) :
                      /\ l[k] = e
                      /\ \A i \in 1..Len(l) : l[i].date <= e.date
                      /\ \A i \in 1..(k - 1) : l[i].date = e.date

\* C5, reached: the new entry listed first, before an entry of an earlier second
C5_Witness ==
    \E s \in sessions :
        /\ Rested(s, "add", "saved")
        /\ outcome[s].typed # ""
        /\ Len(sorted_entries[s]) >= 2
        /\ sorted_entries[s][1] = outcome[s].entry[1]
        /\ sorted_entries[s][2].date < sorted_entries[s][1].date

\* C6: after a delete that completed, the entry is in neither the in-memory
\* list nor the metadata store nor the listing, and its image file is not in the
\* image store; no page rendered by a later run lists a deleted entry.
C6_DeleteRemovesEntryAndImage ==
    \A s \in sessions :
        /\ Rested(s, "delete", "deleted")
           => LET e == outcome[s].entry[1]
              IN  /\ e.uid \notin Uids(journal_entries[s])
                  /\ e.uid \notin Uids(metadata_file.entries)
                  /\ e.uid \notin Uids(sorted_entries[s])
                  /\ e.image_path \notin image_store
        /\ (pc[s] = "idle" /\ outcome[s].result # "uncaught")
           => deleted \cap Uids(sorted_entries[s]) = {}

\* C6, reached: one of two saved entries deleted, its image file removed
C6_Witness ==
    \E s \in sessions :
        /\ Rested(s, "delete", "deleted")
        /\ outcome[s].image = "removed"
        /\ Len(metadata_file.entries) = 1
        /\ outcome[s].entry[1].uid \notin Uids(sorted_entries[s])

\* C7, as claimed: when add has written the image and the metadata write then
\* fails, the failure is reported, the new entry is in neither the in-memory
\* list nor the metadata store nor the listing that follows, and the image file
\* stays in the image store.
C7_FailedAddRecordsNothing ==
    \A s \in sessions :
        (/\ pc[s] = "idle"
         /\ outcome[s].op = "add"
         /\ outcome[s].image = "ok"
         /\ outcome[s].meta \in {"open_raises", "write_raises"})
        => LET e == outcome[s].entry[1]
           IN  /\ outcome[s].result = "save_failed"
               /\ e.uid \notin Uids(journal_entries[s])
               /\ e.uid \notin Uids(metadata_file.entries)
               /\ e.uid \notin Uids(sorted_entries[s])
               /\ e.image_path \in image_store

\* C8, as claimed: when delete fails to remove the image file, the delete still
\* completes: the entry is out of the in-memory list and the metadata store, the
\* failure is only reported, and no exception leaves the handler.
C8_ImageRemovalFailureIsNotFatal ==
    \A s \in sessions :
        (/\ pc[s] = "idle"
         /\ outcome[s].op = "delete"
         /\ outcome[s].image = "remove_raises")
        => LET e == outcome[s].entry[1]
           IN  /\ e.uid \notin Uids(journal_entries[s])
               /\ e.uid \notin Uids(metadata_file.entries)
               /\ outcome[s].result # "uncaught"

\* C9: nothing locks the metadata store.  A handler that saves writes the list
\* its own run loaded at line 46, with its one change, over the file: every
\* entry another session stored since that load is gone from the store.
C9_StaleListOverwritesStore ==
    [][\A s \in sessions :
          (pc[s] = "loaded" /\ pc'[s] = "rerun")
          => /\ metadata_file'.entries = journal_entries'[s]
             /\ \A e \in Range(metadata_file.entries) :
                    e \notin Range(journal_entries[s])
                    => e \notin Range(metadata_file'.entries)]_vars

\* C9, reached: both sessions have completed an add, a second apart, nothing was
\* deleted, and the store lacks the entry of session 1, whose image file is
\* still there
C9_Witness ==
    /\ Rested(1, "add", "saved")
    /\ Rested(2, "add", "saved")
    /\ deleted = {}
    /\ metadata_file.status = "valid"
    /\ outcome[1].entry[1].uid \notin Uids(metadata_file.entries)
    /\ outcome[2].entry[1].uid \in Uids(metadata_file.entries)
    /\ outcome[1].entry[1].date < outcome[2].entry[1].date
    /\ outcome[1].entry[1].image_path \in image_store

\* the entries of the state: those of the store and of the lists in memory
LiveEntries ==
    Range(metadata_file.entries) \cup UNION {Range(journal_entries[s]) : s \in sessions}

\* C10: in one session an entry's date, image filename and note never change
\* while it exists, and an entry that has been deleted is never again in the
\* in-memory list or the metadata store.
C10_EntryLifeCycle ==
    /\ [](\A u \in deleted :
             /\ u \notin Uids(metadata_file.entries)
             /\ \A s \in sessions : u \notin Uids(journal_entries[s]))
    /\ [][\A e \in LiveEntries :
             /\ e.uid < next_uid
             /\ \A f \in LiveEntries' : f.uid = e.uid => f = e]_vars

\* C10, reached: an entry has been deleted and another saved after it
C10_Witness ==
    /\ deleted # {}
    /\ \E e \in Range(metadata_file.entries) : \A u \in deleted : u < e.uid
    /\ \E s \in sessions : Rested(s, "add", "saved")

\* the page of the last run is on the screen: no rerun is pending
PageRendered == asset_cache.ml # <<>> /\ detect_outcome.result # "rerun"

\* the result box of the page shows a label and a confidence
Labelled == PageRendered /\ detect_outcome.display \in {"shown", "IndexError_699"}

\* the scores of the stored prediction
StoredScores == acne_prediction_results[1].prediction

\* the positions, from 1, of the largest score of v
MaxPositions(v) == {i \in 1..Len(v) : \A j \in 1..Len(v) : v[j] <= v[i]}

\* C11: the index selected is that of the largest score, the first one in label
\* order when several scores are the largest, and the confidence reported is
\* the score at the selected index.
C11_ArgmaxFirstOccurrence ==
    (PageRendered /\ acne_prediction_results # <<>>)
    => /\ acne_index + 1 \in MaxPositions(StoredScores)
       /\ \A i \in MaxPositions(StoredScores) : acne_index + 1 <= i
       /\ Labelled => acne_confidence = StoredScores[acne_index + 1]

\* C11, reached: the largest score stands at two positions after the first
\* label, and the earlier of the two is selected
C11_Witness ==
    /\ Labelled
    /\ detect_outcome.display = "shown"
    /\ Cardinality(MaxPositions(StoredScores)) = 2
    /\ acne_index >= 1
    /\ acne_index + 1 = Min(MaxPositions(StoredScores))
    /\ acne_confidence = StoredScores[acne_index + 1]
    /\ acne_confidence > StoredScores[1]

\* C12, as claimed: when the prediction's length is not the number of labels,
\* no label and no confidence are shown and the mismatch is signalled.
C12_DimensionMismatchSignalled ==
    (/\ PageRendered
     /\ acne_prediction_results # <<>>
     /\ Len(StoredScores) # Len(loaded_class_names))
    => /\ detect_outcome.display \notin {"shown", "IndexError_699"}
       /\ acne_class_raw = <<>>

\* the plural forms the lookup names
KnownPlurals == {s_blackheads, s_whiteheads, s_papules, s_pustules}

\* C13: the normalised label is the raw label lower-cased, with blackheads,
\* whiteheads, papules and pustules made blackhead, whitehead, papule and
\* pustule and every other label left as lower-cased; the six labels with the
\* scores 0.1, 0.05, 0.6, 0.1, 0.05, 0.1 give "papule" with confidence 0.6.
C13_LabelNormalization ==
    /\ Labelled
       => LET l == str_lower(acne_class_raw)
          IN  /\ l = s_blackheads => acne_class_csv = s_blackhead
              /\ l = s_whiteheads => acne_class_csv = s_whitehead
              /\ l = s_papules => acne_class_csv = s_papule
              /\ l = s_pustules => acne_class_csv = s_pustule
              /\ l \notin KnownPlurals => acne_class_csv = l
    /\ (/\ PageRendered
        /\ loaded_class_names = class_names
        /\ acne_prediction_results # <<>>
        /\ StoredScores = scenario_prediction)
       => /\ detect_outcome.display = "shown"
          /\ acne_class_csv = s_papule
          /\ acne_confidence = 60

\* C13, reached: the scenario is displayed as "papule" with confidence 0.6
C13_Witness ==
    /\ Labelled
    /\ loaded_class_names = class_names
    /\ StoredScores = scenario_prediction
    /\ acne_class_raw = s_papules
    /\ acne_class_csv = s_papule
    /\ acne_confidence = 60

\* C14: normalising a normalised label changes nothing, for the plural forms the
\* lookup names and for the labels that pass through.
C14_NormalizationIdempotent ==
    acne_class_raw # <<>>
    => /\ acne_class_csv = acne_class_for_csv(acne_class_raw)
       /\ acne_class_for_csv(acne_class_csv) = acne_class_csv

\* C14, reached: a plural the lookup names has been made singular
C14_Witness ==
    /\ str_lower(acne_class_raw) \in KnownPlurals
    /\ acne_class_csv # str_lower(acne_class_raw)
    /\ acne_class_for_csv(acne_class_csv) = acne_class_csv

\* C15, as claimed: when the table's row was written with the class label L as
\* its acne type, the lookup for a prediction of L finds that row: the key the
\* load stored it under is the key the display computes for L.
C15_TableKeyMatchesLabelKey ==
    (/\ Labelled
     /\ detect_outcome.display = "shown"
     /\ df_loaded
     /\ df_pengobatan =
            load_recommendation_data(<<[tingkat |-> acne_class_raw, jenis_kulit |-> s_semua]>>))
    => /\ df_pengobatan[1].tingkat = acne_class_csv
       /\ recom_row = <<df_pengobatan[1]>>

\* the rows of the table with the acne type and the skin key of the row chosen
RowsLikeChosen == RowsOfSkin(recom_row[1].tingkat, recom_row[1].jenis_kulit)

\* C16: when several rows match at the preference level the lookup settles on
\* (the same acne type and the mapped skin key, or the same acne type and
\* "semua"), the row returned is the one that comes first in the table.
C16_FirstRowInTableOrder ==
    (Displayed /\ recom_row # <<>>)
    => /\ recom_row[1].tingkat = DisplayedKey
       /\ recom_row[1].jenis_kulit \in {ExpectedKey(skin_type), s_semua}
       /\ \A i \in RowsLikeChosen : recom_row[1].kandungan <= df_pengobatan[i].kandungan
       /\ recom_row[1] = df_pengobatan[recom_row[1].kandungan]

\* C16, reached: two "oily" rows of the acne type after a "semua" row, the oily
\* selection, and the first of the two returned
C16_Witness ==
    /\ Displayed
    /\ skin_type = "Berminyak"
    /\ recom_row # <<>>
    /\ recom_row[1].jenis_kulit = s_oily
    /\ Cardinality(RowsLikeChosen) = 2
    /\ recom_row[1].kandungan = 2
    /\ RowsOfSkin(DisplayedKey, s_semua) = {1}

\* C17: the mapping sends the oily selection to "oily" and every other
\* selection of the selectbox to "semua"; a text that is no option of the
\* selectbox maps to "semua" as well.
C17_SkinTypeMapping ==
    acne_class_raw # <<>>
    => /\ skin_type = "Berminyak" => user_skin_type_csv = s_oily
       /\ skin_type \in SkinTypeOptions \ {"Berminyak"} => user_skin_type_csv = s_semua
       /\ skin_type \notin SkinTypeOptions => user_skin_type_csv = s_semua

\* C17, reached: a text that is no option has been mapped to "semua"
C17_Witness ==
    /\ acne_class_raw # <<>>
    /\ skin_type = "Oily"
    /\ user_skin_type_csv = s_semua

\* C18: an add with the note box empty yields an entry whose note is exactly
\* "No note."; an add with a note yields an entry with that note, unchanged.
C18_DefaultNote ==
    \A s \in sessions :
        (outcome[s].op = "add" /\ outcome[s].entry # <<>>)
        => LET e == outcome[s].entry[1]
           IN  /\ outcome[s].typed = "" => e.note = "No note."
               /\ outcome[s].typed # "" => e.note = outcome[s].typed
               /\ (pc[s] = "rerun" /\ metadata_file.status = "valid")
                  => \E i \in 1..Len(metadata_file.entries) : metadata_file.entries[i] = e

\* C18, reached: an add with the note box empty has been saved and is listed
\* with the note "No note."
C18_Witness ==
    \E s \in sessions :
        /\ Rested(s, "add", "saved")
        /\ outcome[s].typed = ""
        /\ sorted_entries[s] # <<>>
        /\ sorted_entries[s][1].note = "No note."
        /\ sorted_entries[s][1].uid = outcome[s].entry[1].uid

\* C19, as claimed: a file write that fails in journal add or journal delete is
\* caught by the handler and reported; the handler is not left by an exception.
\* (Detection's handler catches decode and prediction failures at line 625.)
C19_WriteFailuresAreCaught ==
    /\ detect_outcome.result \in {"none", "not_ready", "no_image", "detect_failed", "rerun"}
    /\ \A s \in sessions :
           (/\ outcome[s].op \in {"add", "delete"}
            /\ \/ outcome[s].image \in {"open_raises", "write_raises"}
               \/ outcome[s].meta \in {"open_raises", "write_raises"})
           => outcome[s].result = "save_failed"

\* the first run is over and a load has failed: the model and the label list
\* are None, or the table is
DegradedMode == asset_cache.ml # <<>> /\ (model = 0 \/ loaded_class_names = <<>> \/ ~df_loaded)

\* C20: once a load has failed at startup, the application stays in that mode;
\* every "Start Acne Detection" in it ends in the "not ready" message, with
\* model.predict not called and no load function run again, and no prediction
\* is ever stored or displayed.
C20_DegradedModeShortCircuits ==
    /\ [](DegradedMode
          => /\ acne_prediction_results = <<>>
             /\ detect_outcome.result \in {"none", "not_ready", "rerun"}
             /\ ~detect_outcome.predict_called
             /\ detect_outcome.display = "none"
             /\ detect_outcome.result = "not_ready" => detect_outcome.loads_run = 0)
    /\ [][DegradedMode
          => /\ DegradedMode'
             /\ UNCHANGED <<model, loaded_class_names, df_loaded, asset_cache>>
             /\ detect_outcome'.loads_run = 0]_vars

\* C20, reached: the model and the labels are loaded, the table is not, and a
\* detection has ended in the "not ready" message
C20_Witness ==
    /\ DegradedMode
    /\ model # 0
    /\ loaded_class_names # <<>>
    /\ ~df_loaded
    /\ detect_outcome.result = "not_ready"
    /\ ~detect_outcome.predict_called
    /\ detect_outcome.loads_run = 0
    /\ acne_prediction_results = <<>>

\* C21, as claimed: when no file operation has failed, no two entries of the
\* metadata store name the same image file, and after a delete every entry
\* still listed has its image file in the image store.
C21_ImageOwnershipExclusive ==
    io_faults = 0
    => /\ \A i, j \in 1..Len(metadata_file.entries) :
              i # j => metadata_file.entries[i].image_path # metadata_file.entries[j].image_path
       /\ \A s \in sessions :
              Rested(s, "delete", "deleted")
              => \A i \in 1..Len(sorted_entries[s]) :
                     sorted_entries[s][i].image_path \in image_store

\* seq without its k-th element
Without(seq, k) == SubSeq(seq, 1, k - 1) \o SubSeq(seq, k + 1, Len(seq))

\* the elements of seq, each as often as it occurs
Counts(seq) == [x \in Range(seq) |-> Cardinality({i \in 1..Len(seq) : seq[i] = x})]

====
